---- MODULE Spec2Model ----
(***************************************************************************)
(* Agent Orchestration Engine of AI-PM-Buddy (backend/).                   *)
(*                                                                         *)
(*   Spec            run_deep_agent_workflow: the Deep Agent reasoning     *)
(*                   loop (create_react_agent), its tools, the nested      *)
(*                   specialist loop of consult_specialist, persistence.   *)
(*   SpecSupervisor  create_team_graph: the Supervisor-hub routing graph.  *)
(*   SpecTaskGraph   build_dynamic_graph: plan -> parallel agents ->       *)
(*                   synthesis.                                            *)
(*                                                                         *)
(* Strings the code inspects (names, raw routing output) are sequences of  *)
(* one-character strings; texts the code builds with f-strings are records *)
(* [head, name, tail] = head + name + tail.                                *)
(***************************************************************************)
EXTENDS Naturals, Sequences, FiniteSets, TLC

(***************************************************************************)
(* Bounds of the model.                                                    *)
(***************************************************************************)
\* Supersteps one graph run may take. The code never sets recursion_limit
\* (deep_agent_manager.py:145-155), so the framework default of 25 applies;
\* the model runs the same loop with a smaller limit.
RecursionLimit == 5

(***************************************************************************)
(* Character strings.                                                      *)
(***************************************************************************)
Upper == {"A", "E", "F", "G", "H", "I", "L", "N", "S"}

\* str.lower(), character by character
LowerChar(c) ==
    CASE c = "A" -> "a" [] c = "E" -> "e" [] c = "F" -> "f" [] c = "G" -> "g"
      [] c = "H" -> "h" [] c = "I" -> "i" [] c = "L" -> "l" [] c = "N" -> "n"
      [] c = "S" -> "s" [] OTHER -> c

Lower(s) == [i \in 1..Len(s) |-> LowerChar(s[i])]

RECURSIVE LStrip(_)
LStrip(s) == IF s # << >> /\ Head(s) = " " THEN LStrip(Tail(s)) ELSE s

RECURSIVE RStrip(_)
RStrip(s) ==
    IF s # << >> /\ s[Len(s)] = " " THEN RStrip(SubSeq(s, 1, Len(s) - 1)) ELSE s

\* str.strip()
Strip(s) == LStrip(RStrip(s))

\* str.replace(c, ""): every occurrence of the character removed
RemoveChar(s, c) == SelectSeq(s, LAMBDA x : x # c)

\* needle in hay
Contains(hay, needle) ==
    \E i \in 0..(Len(hay) - Len(needle)) :
        SubSeq(hay, i + 1, i + Len(needle)) = needle

S_Legal   == <<"L", "e", "g", "a", "l">>
S_Finance == <<"F", "i", "n", "a", "n", "c", "e">>
S_FINISH  == <<"F", "I", "N", "I", "S", "H">>
S_a1      == <<"a", "1">>
S_a2      == <<"a", "2">>
S_a3      == <<"a", "3">>

(***************************************************************************)
(* Texts.                                                                  *)
(***************************************************************************)
Text(head, name, tail) == [head |-> head, name |-> name, tail |-> tail]
Plain(s) == Text(s, << >>, "")
EmptyText == Plain("")
IsEmptyText(t) == t.head = "" /\ t.name = << >> /\ t.tail = ""

\* The prefixes by which an observation is marked clearly as an error.
ErrorMarkers ==
    { "Error performing internet search: ", "Error searching documents: ",
      "Error querying data: ", "Query failed: ", "Error retrieving schema: ",
      "Error retrieving information: ", "Error: Specialist '",
      "Error: Configuration for specialist '",
      "Error gathering advice from specialist: ", "Error: " }

StartsWithErrorMarker(t) == t.head \in ErrorMarkers

\* str(e) of the exception a failing collaborator raises
ExceptionTexts == {"connection refused", ""}

(***************************************************************************)
(* Tool handlers (agent_tools.py) and what they call (rag_manager.py).     *)
(* A handler is a function of what its collaborators do (outcome) and of   *)
(* str(e) of the exception a failing collaborator raises.                  *)
(***************************************************************************)
internet_search(outcome, e) ==
    CASE outcome = "fault"      -> Text("Error performing internet search: ", << >>, e)
      [] outcome = "no_results" -> Plain("No results found for the query.")
      [] OTHER                  -> Plain("Top search results:\n")

\* RAGDocumentManager.search_documents: a failing vector-store call is
\* caught and an empty result list returned
search_documents(outcome) ==
    CASE outcome = "found"       -> "rows"
      [] outcome = "none"        -> "empty"
      [] outcome = "store_fault" -> "empty"
      [] OTHER                   -> "empty"

search_text_documents(outcome, e) ==
    IF outcome \in {"mgr_fault", "embed_fault"}
    THEN Text("Error searching documents: ", << >>, e)
    ELSE IF search_documents(outcome) = "empty"
         THEN Plain("No relevant text documents found.")
         ELSE Plain("Found the following relevant information:\n\n")

\* RAGDocumentManager.query_structured_data -> (rows, success, error)
query_structured_data(outcome, e) ==
    CASE outcome = "not_select" ->
            [rows |-> "none", success |-> FALSE,
             error |-> "Only SELECT queries are allowed."]
      [] outcome = "sql_fault" -> [rows |-> "none", success |-> FALSE, error |-> e]
      [] outcome = "zero_rows" -> [rows |-> "empty", success |-> TRUE, error |-> ""]
      [] OTHER                 -> [rows |-> "rows", success |-> TRUE, error |-> ""]

query_data(outcome, e) ==
    IF outcome = "mgr_fault"
    THEN Text("Error querying data: ", << >>, e)
    ELSE LET r == query_structured_data(outcome, e) IN
         IF ~r.success THEN Text("Query failed: ", << >>, r.error)
         ELSE IF r.rows = "empty"
              THEN Plain("Query executed successfully but returned 0 rows.\n")
              ELSE Plain("Query Results:\n")

\* RAGDocumentManager.get_data_context: a failing introspection is caught
\* and str(e) returned in place of the schema
get_data_context(outcome, e) ==
    CASE outcome = "introspect_fault" -> e
      [] outcome = "no_tables"        -> ""
      [] OTHER                        -> "Table: t (1 rows)\nColumns: c (TEXT)"

get_data_schema(outcome, e) ==
    IF outcome = "mgr_fault"
    THEN Text("Error retrieving schema: ", << >>, e)
    ELSE LET schema == get_data_context(outcome, e) IN
         IF schema # "" THEN Plain(schema)
         ELSE Plain("No structured data tables are currently loaded.")

\* what the collaborators of each handler can do
ToolOutcomes(t) ==
    CASE t = "internet_search"       -> {"results", "no_results", "fault"}
      [] t = "search_text_documents" -> {"found", "none", "store_fault", "embed_fault"}
      [] t = "query_data"            ->
            {"rows", "zero_rows", "not_select", "sql_fault", "mgr_fault"}
      [] t = "get_data_schema"       ->
            {"schema", "no_tables", "introspect_fault", "mgr_fault"}
      [] OTHER                       -> {}

\* the outcomes in which the handler failed internally
FaultOutcomes ==
    {"fault", "store_fault", "embed_fault", "sql_fault", "mgr_fault", "introspect_fault"}

\* the exception texts told apart for an outcome: str(e) is only seen to
\* matter where the code tests it (get_data_schema: `schema if schema else`)
TextsOf(outcome) ==
    IF outcome = "introspect_fault" THEN ExceptionTexts ELSE {"connection refused"}

Handler(t, outcome, e) ==
    CASE t = "internet_search"       -> internet_search(outcome, e)
      [] t = "search_text_documents" -> search_text_documents(outcome, e)
      [] t = "query_data"            -> query_data(outcome, e)
      [] OTHER                       -> get_data_schema(outcome, e)

SimpleTools == {"internet_search", "search_text_documents", "query_data", "get_data_schema"}

\* run_deep_agent_workflow: tools = [search_text_documents, get_data_schema,
\* query_data, internet_search, consult_specialist, consult_specialist]
workflow_tools == SimpleTools \cup {"consult_specialist"}

\* a variant of specialist_tools that hands consult_specialist to the specialist
specialist_tools_with_consult == SimpleTools \cup {"consult_specialist"}

\* consult_specialist: specialist_tools = [internet_search, query_data,
\* get_data_schema, search_text_documents]
specialist_tools == SimpleTools

\* delegation nesting the tool sets allow: the specialist has no consult tool
MaxDelegationDepth == 1

(***************************************************************************)
(* Messages (langchain_core.messages) and chat_messages rows.              *)
(***************************************************************************)
NoName == "<None>"
NoTool == "<no tool call>"

Msg(type, content, name, tool, args, id) ==
    [type |-> type, content |-> content, name |-> name,
     tool |-> tool, args |-> args, tool_call_id |-> id]

HumanMsg(content)        == Msg("human", content, NoName, NoTool, << >>, NoName)
AIMsg(content)           == Msg("ai", content, NoName, NoTool, << >>, NoName)
AICall(tool, args)       == Msg("ai", EmptyText, NoName, tool, args, NoName)
ToolMsg(content, name, id) == Msg("tool", content, name, NoTool, << >>, id)

Row(role, content, name) == [role |-> role, content |-> content, name |-> name]

UserQuestion == Plain("compare clauses")
Answer       == Plain("final answer")
\* create_react_agent's reply when a tool call can no longer be run
SorryText    == Plain("Sorry, need more steps to process this request.")

(***************************************************************************)
(* The agents table and its lookup (agent_service.py).                     *)
(***************************************************************************)
AgentsTable ==
    << [id |-> S_a1, name |-> S_Legal], [id |-> S_a2, name |-> S_Finance] >>

NoConfig == [id |-> << >>, name |-> << >>]

\* get_agent_config_by_id: the row with that id; None when there is none or
\* when the query fails (db_ok = FALSE: the exception is caught and logged)
get_agent_config_by_id(agent_id, db_ok) ==
    LET hits == {i \in DOMAIN AgentsTable : AgentsTable[i].id = agent_id} IN
    IF db_ok /\ hits # {}
    THEN AgentsTable[CHOOSE i \in hits : \A j \in hits : i <= j]
    ELSE NoConfig

(***************************************************************************)
(* State of one call of run_deep_agent_workflow.                           *)
(***************************************************************************)
VARIABLES
    req,             \* the arguments: [session, project] (is the id given?)
    pc,              \* "start" | "loop" | "persist" | "returned" | "raised"
    loops,           \* the stack of running Reasoning Loops, outermost first
    input_len,       \* len(input_messages)
    store,           \* chat_messages rows of the session, by created_at
    session_updates, \* updates of the chat_sessions row by this call
    result,          \* what the caller receives
    persisted,       \* "none" | "partial" | "full": how far persistence got
    last_tool,       \* the last tool invocation that returned (history)
    consult_log,     \* the last consult_specialist invocation (history)
    failed_trace,    \* the messages of the top-level loop when it failed
    model_down       \* the top-level loop's model call has failed (history)

wf_vars == <<req, pc, loops, input_len, store, session_updates, result,
             persisted, last_tool, consult_log, failed_trace, model_down>>

NoResult == [status |-> "none"]
NoToolRun == [tool |-> NoTool, outcome |-> "none", obs |-> EmptyText, depth |-> 0]
NoConsult == [name |-> << >>, table_ok |-> TRUE, outcome |-> "none", obs |-> EmptyText,
              child_created |-> FALSE, child_calls |-> 0, depth |-> 0]

Frame(depth, agent, tools, messages) ==
    [depth |-> depth, agent |-> agent, tools |-> tools, messages |-> messages,
     step |-> 0, iteration_count |-> 0, model_calls |-> 0, state |-> "THINKING"]

Top == loops[Len(loops)]
SetTop(ls, f) == [ls EXCEPT ![Len(ls)] = f]
Last(seq) == seq[Len(seq)]

(***************************************************************************)
(* The Reasoning Loop: langgraph.prebuilt.create_react_agent as built by   *)
(* create_deep_agent. The agent node and the tools node alternate, one     *)
(* superstep each; the graph is invoked without a recursion_limit.         *)
(***************************************************************************)
\* the variant of the agent node that runs every tool call it is given
MayCallToolsAlways(step) == TRUE

\* the agent node, running as superstep `step`, has remaining_steps =
\* RecursionLimit - step; with fewer than 2 a tool call is not run
MayCallTools(step) == RecursionLimit - step >= 2

\* completed tool-call/observe cycles the limit leaves room for
IterationCeiling == (RecursionLimit - 1) \div 2

\* model returned a message without tool call
AgentAnswers(f) ==
    [f EXCEPT !.messages = Append(@, AIMsg(Answer)), !.step = @ + 1,
              !.model_calls = @ + 1, !.state = "DONE"]

\* a variant of the agent node that fails the run when a tool call can no
\* longer be run
AgentCallsRaisesAtLimit(f, tool, args) ==
    IF MayCallTools(f.step + 1)
    THEN [f EXCEPT !.messages = Append(@, AICall(tool, args)), !.step = @ + 1,
                   !.model_calls = @ + 1, !.state = "ACTING"]
    ELSE [f EXCEPT !.step = @ + 1, !.model_calls = @ + 1, !.state = "FAILED"]

\* model returned a tool call
AgentCalls(f, tool, args) ==
    IF MayCallTools(f.step + 1)
    THEN [f EXCEPT !.messages = Append(@, AICall(tool, args)), !.step = @ + 1,
                   !.model_calls = @ + 1, !.state = "ACTING"]
    ELSE [f EXCEPT !.messages = Append(@, AIMsg(SorryText)), !.step = @ + 1,
                   !.model_calls = @ + 1, !.state = "DONE"]

\* the tools node: the observation becomes a ToolMessage, back to the agent
Observe(f, obs) ==
    [f EXCEPT !.messages = Append(@, ToolMsg(obs, Last(f.messages).tool, "call_1")),
              !.step = @ + 1, !.iteration_count = @ + 1, !.state = "THINKING"]

\* a variant of the tools node that looks the name up among all the tools
\* of the application instead of the tools the loop was built with
ToolNodeHoldsAnyRegistered(tool, tools) == tool \in workflow_tools

\* ToolNode(tools): the name of the call is looked up among the tools the
\* loop was built with
ToolNodeHolds(tool, tools) == tool \in tools

\* ToolNode for a tool name it does not hold
InvalidToolText(tool) ==
    IF tool = "consult_specialist"
    THEN Text("Error: ", << >>, "consult_specialist is not a valid tool, try one of [...].")
    ELSE Text("Error: ", << >>, "unknown_tool is not a valid tool, try one of [...].")

(***************************************************************************)
(* run_deep_agent_workflow: history load, serialisation, persistence.      *)
(***************************************************************************)
\* one chat_messages row as the history load reads it (lines 130-138);
\* << >> for a row of any other role
LoadRow(row) ==
    CASE row.role = "user"      -> << HumanMsg(row.content) >>
      [] row.role = "assistant" -> << AIMsg(row.content) >>
      [] row.role = "function"  ->
            << ToolMsg(row.content, NoName,
                       IF row.name # NoName THEN row.name ELSE "unknown") >>
      [] OTHER                  -> << >>

RECURSIVE LoadHistory(_)
LoadHistory(rows) ==
    IF rows = << >> THEN << >> ELSE LoadRow(Head(rows)) \o LoadHistory(Tail(rows))

\* role of a message in the returned trace (lines 178-184)
TraceRole(m) ==
    CASE m.type = "human"  -> "user"
      [] m.type = "system" -> "system"
      [] m.type = "tool"   -> "function"
      [] OTHER             -> "assistant"

\* one entry of serialized_messages (lines 189-194)
SerializeMsg(m) ==
    [role |-> TraceRole(m), content |-> m.content,
     name |-> IF m.name # NoName THEN m.name
              ELSE IF TraceRole(m) = "user" THEN "You" ELSE "Agent",
     type |-> m.type]

SerializeTrace(msgs) == [i \in 1..Len(msgs) |-> SerializeMsg(msgs[i])]

\* role of a stored message (lines 236-240)
StoredRole(m) ==
    CASE m.type = "human" -> "user"
      [] m.type = "tool"  -> "function"
      [] OTHER            -> "assistant"

\* the row written for a new message (lines 247-252):
\* name = msg.name or msg.tool_call_id
StoredRow(m) ==
    Row(StoredRole(m), m.content,
        IF m.name # NoName THEN m.name ELSE m.tool_call_id)

\* a variant whose slice of new messages starts one message early
PersistRowsFromUserMessage(msgs, n_input) ==
    << Row("user", UserQuestion, "You") >>
    \o [i \in 1..(Len(msgs) - n_input + 1) |-> StoredRow(msgs[n_input - 1 + i])]

\* the inserts of one call, in order: the user message, then the new messages
PersistRows(msgs, n_input) ==
    << Row("user", UserQuestion, "You") >>
    \o [i \in 1..(Len(msgs) - n_input) |-> StoredRow(msgs[n_input + i])]

\* role, content and name of a message
Fields(m) ==
    [role |-> CASE m.type = "human" -> "user" [] m.type = "ai" -> "assistant"
                [] OTHER -> m.type,
     content |-> m.content, name |-> m.name]

FieldsOf(msgs) == [i \in 1..Len(msgs) |-> Fields(msgs[i])]

\* rows a run of this function leaves in a session
StoresBefore ==
    { << >>,
      << Row("user", UserQuestion, "You"), Row("assistant", Answer, NoName) >> }

(***************************************************************************)
(* consult_specialist (agent_tools.py).                                    *)
(***************************************************************************)
NameMatches(agent_name) ==
    {i \in DOMAIN AgentsTable :
        Lower(Strip(AgentsTable[i].name)) = Lower(Strip(agent_name))}

\* lines 179-185: the id of the first agent whose name matches; << >> if none
ResolveTarget(agent_name) ==
    IF NameMatches(agent_name) = {} THEN << >>
    ELSE AgentsTable[CHOOSE i \in NameMatches(agent_name) :
                        \A j \in NameMatches(agent_name) : i <= j].id

NotFoundText(agent_name) ==
    Text("Error: Specialist '", agent_name, "' not found. Please verify the agent name.")
NotLoadedText(agent_name) ==
    Text("Error: Configuration for specialist '", agent_name, "' could not be loaded.")
\* a variant of the except branch that hands back the exception text alone
AdviceErrorTextBare(e) == Text("", << >>, e)

AdviceErrorText(e) == Text("Error gathering advice from specialist: ", << >>, e)
ResponseText(name, content) ==
    Text("Response from ", name,
         IF content = Answer THEN ":\nfinal answer"
         ELSE ":\nSorry, need more steps to process this request.")

\* a variant of the resolution that falls back to the first agent of the table
consult_resolve_fallback_first(agent_name, table_ok, config_ok, construct_ok, e) ==
    IF ~table_ok THEN [kind |-> "lookup_fault", obs |-> AdviceErrorText(e), config |-> NoConfig]
    ELSE LET target == ResolveTarget(agent_name)
             config == IF target = << >>
                       THEN AgentsTable[1]
                       ELSE get_agent_config_by_id(target, config_ok)
         IN  IF config = NoConfig
             THEN [kind |-> "config_missing", obs |-> NotLoadedText(agent_name),
                   config |-> NoConfig]
             ELSE IF ~construct_ok
             THEN [kind |-> "construct_fault", obs |-> AdviceErrorText(e),
                   config |-> NoConfig]
             ELSE [kind |-> "child", obs |-> EmptyText, config |-> config]

\* lines 170-216: whether the consult returns at once, and with what text, or
\* a specialist loop is built for agent_config
consult_resolve(agent_name, table_ok, config_ok, construct_ok, e) ==
    IF ~table_ok THEN [kind |-> "lookup_fault", obs |-> AdviceErrorText(e), config |-> NoConfig]
    ELSE LET target == ResolveTarget(agent_name)
             config == IF target = << >>
                       THEN get_agent_config_by_id(agent_name, config_ok)
                       ELSE get_agent_config_by_id(target, config_ok)
         IN  IF target = << >> /\ config = NoConfig
             THEN [kind |-> "not_found", obs |-> NotFoundText(agent_name),
                   config |-> NoConfig]
             ELSE IF config = NoConfig
             THEN [kind |-> "config_missing", obs |-> NotLoadedText(agent_name),
                   config |-> NoConfig]
             ELSE IF ~construct_ok
             THEN [kind |-> "construct_fault", obs |-> AdviceErrorText(e),
                   config |-> NoConfig]
             ELSE [kind |-> "child", obs |-> EmptyText, config |-> config]

\* the names the model may pass as agent_name
S_legal_padded == <<" ", "L", "E", "G", "A", "L", " ">>
S_Nobody       == <<"N", "o", "b", "o", "d", "y">>
ConsultNames   == {S_legal_padded, S_Finance, S_a2, S_Nobody}

\* run_deep_agent_workflow(specialist_ids=...): the specialists of the
\* execution; they are listed in the system prompt (lines 94-104)
specialist_ids == <<S_a1>>

\* the tool names a model message may carry
ModelToolNames == workflow_tools \cup {"unknown_tool"}
ArgsFor(tool) == IF tool = "consult_specialist" THEN ConsultNames ELSE {<< >>}

(***************************************************************************)
(* State of the Supervisor graph (create_team_graph) and of the task graph *)
(* (build_dynamic_graph).                                                  *)
(***************************************************************************)
VARIABLES
    sup_members,   \* members: the names of the agents found, in agent_ids order
    sup_messages,  \* AgentState.messages (operator.add)
    sup_next,      \* AgentState.next
    sup_node,      \* the node to run: "Supervisor" | "worker" | "END" | "failed"
    sup_step,      \* supersteps taken
    sup_log        \* the Supervisor's last run: raw output, history length, parsed

VARIABLES
    tg_agent_ids,      \* spec.agent_ids
    tg_node,           \* "idle" | "task_planner" | "agents" | "synthesis" | "END" | "failed"
    tg_messages,       \* AIProjectManagerState.messages (merge_list)
    tg_task_breakdown, \* AIProjectManagerState.task_breakdown (no reducer)
    tg_current_step,   \* AIProjectManagerState.current_step (no reducer)
    tg_agent_outputs,  \* AIProjectManagerState.agent_outputs (merge_dict)
    tg_writes,         \* what the branches of the running superstep returned,
                       \* in completion order
    tg_error,          \* the exception that ended the run
    tg_sections        \* the section labels of the synthesis prompt, in order

VARIABLES
    ag_messages,   \* AgentState.messages of create_agent_graph (no reducer)
    ag_node,       \* the node to run: "idle" | "agent" | "tools" | "END" | "failed"
    ag_step,       \* supersteps taken
    ag_log         \* every message handed in or returned by a node (history)

VARIABLES
    rag_manager,   \* agent_tools.rag_manager, the module global: 0 is None,
                   \* r the RAGDocumentManager built while serving request r
    rq_pc,         \* per request: where its tool call stands
    rq_mgr,        \* per request: the manager get_rag_manager handed it
    rq_calls,      \* per request: tool calls made
    rq_access      \* accesses to the module global: [req, op] (history)

VARIABLES
    mb_app,              \* the application serving the mailbox endpoints:
                         \* "none" | "main" | "main_claude"
    a2a_message_buffer,  \* the module global: recipient id -> pending envelopes
    mb_sent,             \* every send so far, in order: [to, envelope] (history)
    mb_retrieved         \* every retrieval so far: [agent, messages] (history)

sup_vars == <<sup_members, sup_messages, sup_next, sup_node, sup_step, sup_log>>
tg_vars  == <<tg_agent_ids, tg_node, tg_messages, tg_task_breakdown, tg_current_step,
              tg_agent_outputs, tg_writes, tg_error, tg_sections>>
ag_vars  == <<ag_messages, ag_node, ag_step, ag_log>>
rq_vars  == <<rag_manager, rq_pc, rq_mgr, rq_calls, rq_access>>
mb_vars  == <<mb_app, a2a_message_buffer, mb_sent, mb_retrieved>>
not_wf_vars  == <<sup_vars, tg_vars, ag_vars, rq_vars, mb_vars>>
not_sup_vars == <<wf_vars, tg_vars, ag_vars, rq_vars, mb_vars>>
not_tg_vars  == <<wf_vars, sup_vars, ag_vars, rq_vars, mb_vars>>
not_ag_vars  == <<wf_vars, sup_vars, tg_vars, rq_vars, mb_vars>>
not_rq_vars  == <<wf_vars, sup_vars, tg_vars, ag_vars, mb_vars>>
not_mb_vars  == <<wf_vars, sup_vars, tg_vars, ag_vars, rq_vars>>
vars == <<wf_vars, sup_vars, tg_vars, ag_vars, rq_vars, mb_vars>>

NoSupLog == [ran |-> FALSE, raw |-> << >>, len |-> 0, parsed |-> << >>]

\* no call of run_deep_agent_workflow is under way
WfIdle ==
    /\ req = [session |-> FALSE, project |-> FALSE]
    /\ pc = "idle"
    /\ loops = << >>
    /\ input_len = 0
    /\ store = << >>
    /\ session_updates = 0
    /\ result = NoResult
    /\ persisted = "none"
    /\ last_tool = NoToolRun
    /\ consult_log = NoConsult
    /\ failed_trace = << >>
    /\ model_down = FALSE

\* no Supervisor graph has been built
SupIdle ==
    /\ sup_members = << >>
    /\ sup_messages = << >>
    /\ sup_next = << >>
    /\ sup_node = "idle"
    /\ sup_step = 0
    /\ sup_log = NoSupLog

\* no task graph has been built
TgIdle ==
    /\ tg_agent_ids = << >>
    /\ tg_node = "idle"
    /\ tg_messages = << >>
    /\ tg_task_breakdown = << >>
    /\ tg_current_step = "none"
    /\ tg_agent_outputs = << >>
    /\ tg_writes = << >>
    /\ tg_error = "none"
    /\ tg_sections = << >>

\* no graph of create_agent_graph has been built
AgIdle ==
    /\ ag_messages = << >>
    /\ ag_node = "idle"
    /\ ag_step = 0
    /\ ag_log = << >>

\* no request is being served and agent_tools has just been imported
RqIdle ==
    /\ rag_manager = 0
    /\ rq_pc = << >>
    /\ rq_mgr = << >>
    /\ rq_calls = << >>
    /\ rq_access = {}

\* no message has been sent or retrieved
MbIdle ==
    /\ mb_app = "none"
    /\ a2a_message_buffer = [k \in {} |-> << >>]
    /\ mb_sent = << >>
    /\ mb_retrieved = << >>

(***************************************************************************)
(* Actions of run_deep_agent_workflow.                                     *)
(***************************************************************************)
ModelErrorText == "timed out"

Requests ==
    { [session |-> TRUE,  project |-> TRUE],
      [session |-> FALSE, project |-> TRUE] }

WfInit ==
    /\ req \in Requests
    /\ pc = "start"
    /\ loops = << >>
    /\ input_len = 0
    /\ store \in (IF req.session THEN StoresBefore ELSE {<< >>})
    /\ session_updates = 0
    /\ result = NoResult
    /\ persisted = "none"
    /\ last_tool = NoToolRun
    /\ consult_log = NoConsult
    /\ failed_trace = << >>
    /\ model_down = FALSE

\* lines 74-143: prompt, create_deep_agent, history load, input_messages
StartWorkflow ==
    /\ UNCHANGED not_wf_vars
    /\ pc = "start"
    /\ \E load_ok \in BOOLEAN :
          /\ req.session \/ load_ok
          /\ LET chat_history == IF req.session /\ load_ok
                                 THEN LoadHistory(store) ELSE << >>
                 input_messages == chat_history \o << HumanMsg(UserQuestion) >>
             IN  /\ loops' = << Frame(0, << >>, workflow_tools, input_messages) >>
                 /\ input_len' = Len(input_messages)
    /\ pc' = "loop"
    /\ UNCHANGED <<req, store, session_updates, result, persisted, last_tool,
                   consult_log, failed_trace, model_down>>

\* lines 116-120: create_deep_agent raises; the call is outside the try
StartConstructFails ==
    /\ UNCHANGED not_wf_vars
    /\ pc = "start"
    /\ pc' = "raised"
    /\ UNCHANGED <<req, loops, input_len, store, session_updates, result,
                   persisted, last_tool, consult_log, failed_trace, model_down>>

\* the consult of the loop below the top of the stack returns obs
ConsultReturns(obs, outcome) ==
    LET parent == loops[Len(loops) - 1] IN
    /\ loops' = Append(SubSeq(loops, 1, Len(loops) - 2), Observe(parent, obs))
    /\ last_tool' = [tool |-> "consult_specialist", outcome |-> outcome,
                     obs |-> obs, depth |-> parent.depth]
    /\ consult_log' = [consult_log EXCEPT !.outcome = outcome, !.obs = obs,
                                           !.child_calls = @ + 1]
    /\ pc' = pc

\* the agent node of the innermost loop has produced frame f
AgentStep(f) ==
    IF f.state = "DONE" /\ Len(loops) > 1
    THEN \* agent_tools.py 231-236: the specialist's last message, wrapped
         ConsultReturns(ResponseText(f.agent, Last(f.messages).content), "response")
    ELSE /\ loops' = SetTop(loops, f)
         /\ pc' = IF f.state = "DONE" THEN "persist" ELSE "loop"
         /\ consult_log' = IF Len(loops) > 1
                           THEN [consult_log EXCEPT !.child_calls = @ + 1]
                           ELSE consult_log
         /\ UNCHANGED last_tool

ThinkFinal ==
    /\ UNCHANGED not_wf_vars
    /\ pc = "loop"
    /\ Top.state = "THINKING"
    /\ AgentStep(AgentAnswers(Top))
    /\ UNCHANGED <<req, input_len, store, session_updates, result, persisted,
                   failed_trace, model_down>>

ThinkToolCall ==
    /\ UNCHANGED not_wf_vars
    /\ pc = "loop"
    /\ Top.state = "THINKING"
    /\ \E tool \in ModelToolNames : \E args \in ArgsFor(tool) :
          AgentStep(AgentCalls(Top, tool, args))
    /\ UNCHANGED <<req, input_len, store, session_updates, result, persisted,
                   failed_trace, model_down>>

\* a variant of the agent node that turns a failed model call into an
\* observation and goes on
ModelCallFailsAsObservation(f, e) ==
    [f EXCEPT !.messages = Append(@, ToolMsg(AdviceErrorText(e), NoName, "call_1")),
              !.step = @ + 1, !.model_calls = @ + 1, !.state = "THINKING"]

\* the model call of the agent node raises (timeout=120.0, connection
\* error): the node, and with it agent.ainvoke, raises
ModelCallFails(f, e) ==
    [f EXCEPT !.step = @ + 1, !.model_calls = @ + 1, !.state = "FAILED"]

ThinkUnavailable ==
    /\ UNCHANGED not_wf_vars
    /\ pc = "loop"
    /\ Top.state = "THINKING"
    /\ LET f == ModelCallFails(Top, ModelErrorText) IN
       IF Len(loops) > 1
       THEN \* agent_tools.py 240-242: consult_specialist's except
            /\ ConsultReturns(AdviceErrorText(ModelErrorText), "child_fault")
            /\ UNCHANGED <<result, failed_trace, model_down>>
       ELSE \* deep_agent_manager.py 278-283
            /\ loops' = SetTop(loops, f)
            /\ model_down' = TRUE
            /\ failed_trace' = Top.messages
            /\ IF f.state = "FAILED"
               THEN /\ pc' = "returned"
                    /\ result' = [status |-> "error", message |-> ModelErrorText]
               ELSE /\ pc' = "loop"
                    /\ result' = result
            /\ UNCHANGED <<last_tool, consult_log>>
    /\ UNCHANGED <<req, input_len, store, session_updates, persisted>>

\* ToolNode: the tool called is not one of the loop's tools
ActInvalidTool ==
    /\ UNCHANGED not_wf_vars
    /\ pc = "loop"
    /\ Top.state = "ACTING"
    /\ ~ToolNodeHolds(Last(Top.messages).tool, Top.tools)
    /\ LET obs == InvalidToolText(Last(Top.messages).tool) IN
          /\ loops' = SetTop(loops, Observe(Top, obs))
          /\ last_tool' = [tool |-> Last(Top.messages).tool, outcome |-> "invalid_tool",
                           obs |-> obs, depth |-> Top.depth]
    /\ UNCHANGED <<req, pc, input_len, store, session_updates, result, persisted,
                   consult_log, failed_trace, model_down>>

\* ToolNode runs one of the four plain handlers
ActTool ==
    /\ UNCHANGED not_wf_vars
    /\ pc = "loop"
    /\ Top.state = "ACTING"
    /\ ToolNodeHolds(Last(Top.messages).tool, Top.tools)
    /\ Last(Top.messages).tool \in SimpleTools
    /\ \E outcome \in ToolOutcomes(Last(Top.messages).tool) : \E e \in TextsOf(outcome) :
          LET obs == Handler(Last(Top.messages).tool, outcome, e) IN
          /\ loops' = SetTop(loops, Observe(Top, obs))
          /\ last_tool' = [tool |-> Last(Top.messages).tool, outcome |-> outcome,
                           obs |-> obs, depth |-> Top.depth]
    /\ UNCHANGED <<req, pc, input_len, store, session_updates, result, persisted,
                   consult_log, failed_trace, model_down>>

\* ToolNode runs consult_specialist(agent_name, question)
Consult ==
    /\ UNCHANGED not_wf_vars
    /\ pc = "loop"
    /\ Top.state = "ACTING"
    /\ Last(Top.messages).tool = "consult_specialist"
    /\ ToolNodeHolds("consult_specialist", Top.tools)
    /\ \E table_ok, config_ok, construct_ok \in BOOLEAN :
          LET agent_name == Last(Top.messages).args
              r == consult_resolve(agent_name, table_ok, config_ok, construct_ok,
                                   "connection refused")
          IN  /\ loops' = IF r.kind = "child"
                          THEN Append(loops, Frame(Top.depth + 1, r.config.name,
                                                   specialist_tools,
                                                   << HumanMsg(UserQuestion) >>))
                          ELSE SetTop(loops, Observe(Top, r.obs))
              /\ last_tool' = IF r.kind = "child" THEN last_tool
                              ELSE [tool |-> "consult_specialist", outcome |-> r.kind,
                                    obs |-> r.obs, depth |-> Top.depth]
              /\ consult_log' = [name |-> agent_name, table_ok |-> table_ok,
                                 outcome |-> r.kind, obs |-> r.obs,
                                 child_created |-> Len(loops') > Len(loops),
                                 child_calls |-> 0, depth |-> Top.depth]
    /\ UNCHANGED <<req, pc, input_len, store, session_updates, result, persisted,
                   failed_trace, model_down>>

\* a variant of the persistence step in which a failed write reaches the
\* outer except and the caller gets an error result
PersistAndReturnFailureIsError ==
    /\ UNCHANGED not_wf_vars
    /\ pc = "persist"
    /\ req.project /\ req.session
    /\ LET messages == loops[1].messages
           rows == PersistRows(messages, input_len)
       IN  \E k \in 0..(Len(rows) + 1) :
              /\ store' = store \o SubSeq(rows, 1, IF k > Len(rows) THEN Len(rows) ELSE k)
              /\ session_updates' = IF k = Len(rows) + 1 THEN 1 ELSE 0
              /\ persisted' = IF k = Len(rows) + 1 THEN "full" ELSE "partial"
              /\ result' = IF k = Len(rows) + 1
                           THEN [status |-> "success", output |-> Last(messages).content,
                                 messages |-> SerializeTrace(messages),
                                 session_id |-> req.session]
                           ELSE [status |-> "error", message |-> "insert failed"]
    /\ pc' = "returned"
    /\ UNCHANGED <<req, loops, input_len, last_tool, consult_log, failed_trace,
                   model_down>>

\* lines 157-277 with project_id and session_id: the inserts and the session
\* update run in order inside one try; the first that fails ends them
PersistAndReturn ==
    /\ UNCHANGED not_wf_vars
    /\ pc = "persist"
    /\ req.project /\ req.session
    /\ LET messages == loops[1].messages
           rows == PersistRows(messages, input_len)
       IN  /\ \E k \in 0..(Len(rows) + 1) :
                 /\ store' = store \o SubSeq(rows, 1, IF k > Len(rows) THEN Len(rows) ELSE k)
                 /\ session_updates' = IF k = Len(rows) + 1 THEN 1 ELSE 0
                 /\ persisted' = IF k = Len(rows) + 1 THEN "full" ELSE "partial"
           /\ result' = [status |-> "success", output |-> Last(messages).content,
                         messages |-> SerializeTrace(messages),
                         session_id |-> req.session]
    /\ pc' = "returned"
    /\ UNCHANGED <<req, loops, input_len, last_tool, consult_log, failed_trace,
                   model_down>>

\* lines 157-277 without project_id or session_id: nothing is written
ReturnUnpersisted ==
    /\ UNCHANGED not_wf_vars
    /\ pc = "persist"
    /\ ~(req.project /\ req.session)
    /\ LET messages == loops[1].messages IN
          result' = [status |-> "success", output |-> Last(messages).content,
                     messages |-> SerializeTrace(messages),
                     session_id |-> req.session]
    /\ pc' = "returned"
    /\ UNCHANGED <<req, loops, input_len, store, session_updates, persisted,
                   last_tool, consult_log, failed_trace, model_down>>

WfNext ==
    \/ StartWorkflow
    \/ StartConstructFails
    \/ ThinkFinal
    \/ ThinkToolCall
    \/ ThinkUnavailable
    \/ ActInvalidTool
    \/ ActTool
    \/ Consult
    \/ PersistAndReturn
    \/ ReturnUnpersisted

(***************************************************************************)
(* Properties of the Reasoning Loop and of run_deep_agent_workflow.        *)
(***************************************************************************)

C2_HandlerFaultIsErrorObservation ==
    last_tool.outcome \in FaultOutcomes =>
        /\ pc # "raised"
        /\ ~IsEmptyText(last_tool.obs)
        /\ StartsWithErrorMarker(last_tool.obs)

\* C3: delegation depth never exceeds the maximum: a child loop runs at the
\* depth of its parent plus one, and a consult issued from a loop at the
\* maximum depth is answered by a textual refusal, opens no loop (so no
\* model call is made for a child) and leaves the execution running.
C3_DelegationDepthBounded ==
    /\ \A i \in DOMAIN loops :
          loops[i].depth = i - 1 /\ loops[i].depth <= MaxDelegationDepth
    /\ (last_tool.tool = "consult_specialist" /\ last_tool.depth = MaxDelegationDepth) =>
          /\ last_tool.outcome = "invalid_tool"
          /\ StartsWithErrorMarker(last_tool.obs)
          /\ pc = "loop"
          /\ Len(loops) = MaxDelegationDepth + 1
          /\ Top.state \in {"THINKING", "ACTING"}

\* a specialist loop asked for consult_specialist and got the refusal
C3_Witness ==
    /\ last_tool.tool = "consult_specialist"
    /\ last_tool.depth = MaxDelegationDepth
    /\ last_tool.outcome = "invalid_tool"
    /\ Len(loops) = 2

\* the rows this call wrote, and the messages they were written from
RunRows ==
    SubSeq(store, Len(store) - (Len(loops[1].messages) - input_len), Len(store))
RunMessages == SubSeq(loops[1].messages, input_len, Len(loops[1].messages))

\* C6: the messages of an execution, written by the persistence step and
\* read back by the history load of the next run, are the same sequence:
\* same order, and role, content and name of every message unchanged.
C6_RoundTrip ==
    (pc = "returned" /\ persisted = "full") =>
        FieldsOf(LoadHistory(RunRows)) = FieldsOf(RunMessages)

NoAgentFor(agent_name) ==
    /\ NameMatches(agent_name) = {}
    /\ \A i \in DOMAIN AgentsTable : AgentsTable[i].id # agent_name

\* C7: a consult whose name matches no agent by name or by id returns the
\* text "Error: Specialist '<name>' not found..." at once: no specialist
\* loop is created, no model call is made for one, the execution goes on.
C7_UnknownSpecialistNotFound ==
    (consult_log.outcome # "none" /\ consult_log.table_ok
        /\ NoAgentFor(consult_log.name)) =>
        /\ consult_log.outcome = "not_found"
        /\ consult_log.obs = NotFoundText(consult_log.name)
        /\ ~consult_log.child_created
        /\ consult_log.child_calls = 0
        /\ pc # "raised"

C7_Witness ==
    /\ consult_log.outcome = "not_found"
    /\ consult_log.name = S_Nobody
    /\ last_tool.obs = NotFoundText(S_Nobody)
    /\ Top.state = "THINKING"

\* C8: a failed model call of the top-level loop is not turned into an
\* observation and no further step is taken: the loop is FAILED with the
\* history it had, and the caller has a result of status error.
C8_ModelFailureIsTerminal ==
    model_down =>
        /\ pc = "returned"
        /\ result.status = "error"
        /\ Len(loops) = 1
        /\ loops[1].state = "FAILED"
        /\ loops[1].messages = failed_trace

\* the model failed after a tool had been run
C8_Witness ==
    /\ model_down
    /\ result.status = "error"
    /\ loops[1].iteration_count > 0

\* C9: every call of run_deep_agent_workflow that has ended has returned a
\* structured result of status success or error; no exception leaves it.
C9_AlwaysStructuredResult ==
    pc \in {"returned", "raised"} =>
        pc = "returned" /\ result.status \in {"success", "error"}

\* C10: a result of status error carries the ordered message trace
\* accumulated up to the failure.
C10_ErrorResultCarriesTrace ==
    result.status = "error" =>
        /\ "messages" \in DOMAIN result
        /\ result.messages = SerializeTrace(failed_trace)

C13_PersistenceFailureNotFatal ==
    (pc = "returned" /\ loops[1].state = "DONE") =>
        /\ result.status = "success"
        /\ result.output = Last(loops[1].messages).content
        /\ result.messages = SerializeTrace(loops[1].messages)
        /\ Len(result.messages) >= input_len + 1

\* the session held the rows of an earlier run, the history load failed
\* (only the user message went in), a tool was run, and the first insert
\* failed (the session holds the earlier rows and nothing else)
C13_Witness ==
    /\ pc = "returned"
    /\ req.session /\ req.project
    /\ persisted = "partial"
    /\ store = << Row("user", UserQuestion, "You"), Row("assistant", Answer, NoName) >>
    /\ input_len = 1
    /\ loops[1].iteration_count > 0
    /\ session_updates = 0
    /\ result.status = "success"
    /\ result.output = Answer

\* C16: a consult that was resolved by name (a specialist loop was built for
\* the agent whose name matched) resolved to one of the specialists of the
\* execution.
C16_NameResolvesWithinRoster ==
    (consult_log.child_created /\ NameMatches(consult_log.name) # {}) =>
        ResolveTarget(consult_log.name) \in
            {specialist_ids[i] : i \in DOMAIN specialist_ids}

\* C17: no specialist loop holds consult_specialist, so no specialist loop
\* opens a loop of its own: at most one loop is nested below the top-level
\* loop, and a consult has only ever been run by the top-level loop.
C17_SpecialistHasNoConsult ==
    /\ Len(loops) <= 2
    /\ \A i \in DOMAIN loops :
          i > 1 => /\ "consult_specialist" \notin loops[i].tools
                   /\ loops[i].tools = SimpleTools
    /\ consult_log.child_created => consult_log.depth = 0

\* a specialist loop is running and has run one of its own tools
C17_Witness ==
    /\ Len(loops) = 2
    /\ consult_log.child_created
    /\ loops[2].iteration_count > 0
    /\ last_tool.depth = 1
    /\ last_tool.tool \in SimpleTools

\* the ways a delegation fails: the agents-table query raises, the agent's
\* configuration cannot be loaded, building the specialist raises, the
\* specialist's model call raises
DelegationFaults == {"lookup_fault", "config_missing", "construct_fault", "child_fault"}

\* C19: a failed delegation never ends the call with an exception and never
\* fails the parent loop; when consult_specialist has just returned from a
\* failure, its observation is a text marked as an error, it is the last
\* message of the parent's history, the specialist loop is gone and the
\* parent is THINKING again.
C19_DelegationFailureIsObservation ==
    consult_log.outcome \in DelegationFaults =>
        /\ pc # "raised"
        /\ ~IsEmptyText(consult_log.obs)
        /\ StartsWithErrorMarker(consult_log.obs)
        /\ (loops[1].state = "FAILED" => model_down)
        /\ \E i \in DOMAIN loops[1].messages :
              /\ loops[1].messages[i].type = "tool"
              /\ loops[1].messages[i].content = consult_log.obs
        /\ ( /\ last_tool.tool = "consult_specialist"
              /\ last_tool.outcome = consult_log.outcome
              /\ Last(loops[1].messages).type = "tool"
              /\ ~model_down )
           => /\ Len(loops) = 1
              /\ pc = "loop"
              /\ loops[1].state = "THINKING"
              /\ Last(loops[1].messages).content = consult_log.obs

\* the specialist's model call failed after the specialist had run a tool,
\* and the parent went on to answer
C19_Witness ==
    /\ consult_log.outcome = "child_fault"
    /\ consult_log.child_created
    /\ consult_log.child_calls >= 2
    /\ consult_log.obs = AdviceErrorText(ModelErrorText)
    /\ pc = "returned"
    /\ result.status = "success"

C28_ErrorRunWritesNothing ==
    [][ (pc' # "returned" \/ result'.status = "error") =>
          UNCHANGED <<store, session_updates>> ]_vars

\* a run on a session with stored rows that ran a tool and then failed
C28_Witness ==
    /\ pc = "returned"
    /\ result.status = "error"
    /\ req.session /\ req.project
    /\ store # << >>
    /\ session_updates = 0
    /\ loops[1].iteration_count > 0

(***************************************************************************)
(* The Supervisor graph: create_team_graph (tobedeleted/a2a_service.py).   *)
(***************************************************************************)
TeamMsg(type, content, name) == [type |-> type, content |-> content, name |-> name]

RECURSIVE TeamMembers(_)
\* lines 31-70: the names of the agent_ids that have a configuration
TeamMembers(agent_ids) ==
    IF agent_ids = << >> THEN << >>
    ELSE LET config == get_agent_config_by_id(Head(agent_ids), TRUE) IN
         (IF config = NoConfig THEN << >> ELSE << config.name >>)
         \o TeamMembers(Tail(agent_ids))

\* a variant of the parsing in which the last matching worker wins
parse_supervisor_output_last_match(output, members) ==
    LET cleaned == RemoveChar(RemoveChar(Strip(output), "\""), "'")
        hits == {i \in DOMAIN members : Contains(Lower(cleaned), Lower(members[i]))}
    IN  IF hits # {} THEN members[CHOOSE i \in hits : \A j \in hits : i >= j]
        ELSE S_FINISH

\* lines 122-134
parse_supervisor_output(output, members) ==
    LET cleaned == RemoveChar(RemoveChar(Strip(output), "\""), "'")
        hits == {i \in DOMAIN members : Contains(Lower(cleaned), Lower(members[i]))}
    IN  IF hits # {} THEN members[CHOOSE i \in hits : \A j \in hits : i <= j]
        ELSE S_FINISH

\* a variant of supervisor_node that returns the parsed decision as it is
supervisor_node_as_parsed(output, messages, members) ==
    parse_supervisor_output(output, members)

\* lines 136-150: the decision written to `next`
supervisor_node(output, messages, members) ==
    LET parsed == parse_supervisor_output(output, members) IN
    IF parsed = S_FINISH /\ Len(messages) = 1 THEN members[1] ELSE parsed

S_finance_quoted == <<"'", "f", "i", "n", "a", "n", "c", "e", "'">>
S_finish_dot     == <<" ", "f", "i", "n", "i", "s", "h", ".">>
S_unclear        == <<"?">>
S_both           == <<"F", "i", "n", "a", "n", "c", "e", ",", " ", "L", "E", "G", "A", "L">>
\* raw outputs of the Supervisor's model
RawOutputs == {S_FINISH, S_Legal, S_finance_quoted, S_finish_dot, S_unclear, S_both}

\* agent_ids a team is built from (a3 has no row in the agents table)
TeamRosters == { <<S_a1, S_a2>>, <<S_a2, S_a1>>, <<S_a1>>, <<S_a3, S_a2>> }

\* the messages the graph is invoked with: the user message, alone or after
\* an earlier exchange
TeamInputs ==
    { << TeamMsg("human", UserQuestion, << >>) >>,
      << TeamMsg("human", UserQuestion, << >>), TeamMsg("ai", Answer, << >>),
         TeamMsg("human", UserQuestion, << >>) >> }

SupInit ==
    /\ \E agent_ids \in TeamRosters : sup_members = TeamMembers(agent_ids)
    /\ sup_messages \in TeamInputs
    /\ sup_next = << >>
    /\ sup_node = "Supervisor"
    /\ sup_step = 0
    /\ sup_log = NoSupLog

\* a graph run without a recursion limit
out_of_steps_never(step) == FALSE

\* chain.ainvoke({"messages": messages}) is given no config (main.py:161):
\* the run may take recursion_limit supersteps and no more
out_of_steps(step) == step >= RecursionLimit

\* the Supervisor node runs and the conditional edge is taken (lines 167-171)
SupervisorTurn ==
    /\ UNCHANGED not_sup_vars
    /\ sup_node = "Supervisor"
    /\ ~out_of_steps(sup_step)
    /\ \E raw \in RawOutputs :
          LET decision == supervisor_node(raw, sup_messages, sup_members) IN
          /\ sup_next' = decision
          /\ sup_node' = IF decision = S_FINISH THEN "END" ELSE "worker"
          /\ sup_log' = [ran |-> TRUE, raw |-> raw, len |-> Len(sup_messages),
                         parsed |-> parse_supervisor_output(raw, sup_members)]
    /\ sup_step' = sup_step + 1
    /\ UNCHANGED <<sup_members, sup_messages>>

\* a variant of the worker edges that ends the graph after a worker
worker_edge_to_end(member) == "END"

\* lines 161-164: add_edge(member, "Supervisor")
worker_edge(member) == "Supervisor"

\* the chosen worker runs (lines 42-65) and the edge back is taken (161-164)
WorkerTurn ==
    /\ UNCHANGED not_sup_vars
    /\ sup_node = "worker"
    /\ ~out_of_steps(sup_step)
    /\ sup_messages' = Append(sup_messages, TeamMsg("ai", Answer, sup_next))
    /\ sup_node' = worker_edge(sup_next)
    /\ sup_step' = sup_step + 1
    /\ UNCHANGED <<sup_members, sup_next, sup_log>>

\* a model call of the Supervisor or of a worker raises
TeamModelFails ==
    /\ UNCHANGED not_sup_vars
    /\ sup_node \in {"Supervisor", "worker"}
    /\ ~out_of_steps(sup_step)
    /\ sup_node' = "failed"
    /\ sup_step' = sup_step + 1
    /\ UNCHANGED <<sup_members, sup_messages, sup_next, sup_log>>

\* a node is due after recursion_limit supersteps: GraphRecursionError
TeamOutOfSteps ==
    /\ UNCHANGED not_sup_vars
    /\ sup_node \in {"Supervisor", "worker"}
    /\ out_of_steps(sup_step)
    /\ sup_node' = "failed"
    /\ UNCHANGED <<sup_members, sup_messages, sup_next, sup_step, sup_log>>

SupNext ==
    \/ SupervisorTurn
    \/ WorkerTurn
    \/ TeamModelFails
    \/ TeamOutOfSteps

\* a run of the Supervisor graph, nothing else under way
InitSupervisor == WfIdle /\ SupInit /\ TgIdle /\ AgIdle /\ RqIdle /\ MbIdle

SpecSupervisor == InitSupervisor /\ [][SupNext]_vars

\* the graph executor runs the node that is due: a node's call returns or
\* raises, and a due node is not left waiting
SpecSupervisorLive == SpecSupervisor /\ WF_vars(SupNext)

\* C4: whenever the Supervisor runs on a history of length 1 its decision is
\* not FINISH; a parsed FINISH is replaced by the first worker of the roster.
C4_NoFinishOnFirstTurn ==
    (sup_log.ran /\ sup_log.len = 1) =>
        /\ sup_next # S_FINISH
        /\ sup_node # "END"
        /\ (sup_log.parsed = S_FINISH => sup_next = sup_members[1])

\* roster [Legal, Finance], only the user message, raw output "FINISH"
C4_Witness ==
    /\ sup_members = <<S_Legal, S_Finance>>
    /\ sup_log.ran /\ sup_log.len = 1 /\ sup_log.raw = S_FINISH
    /\ sup_next = S_Legal
    /\ sup_node = "worker"

\* C14: a step in which a worker acted (its message was appended) leaves
\* control at the Supervisor; the node after a worker is never a worker or
\* the end of the graph (a run cut off by an exception has no next node);
\* the graph reaches END only from the Supervisor, on a decision of FINISH.
C14_StarTopology ==
    [][ /\ (sup_messages' # sup_messages) =>
              (sup_node = "worker" /\ sup_node' = "Supervisor")
        /\ sup_node = "worker" => sup_node' \in {"worker", "Supervisor", "failed"}
        /\ (sup_node = "worker" /\ sup_node' = "worker") => UNCHANGED sup_vars
        /\ (sup_node' = "END" /\ sup_node # "END") =>
              (sup_node = "Supervisor" /\ sup_next' = S_FINISH) ]_vars

\* Supervisor -> Legal -> Supervisor -> FINISH
C14_Witness ==
    /\ sup_node = "END"
    /\ sup_next = S_FINISH
    /\ sup_step = 3
    /\ Len(sup_messages) = 2
    /\ sup_messages[2].name = S_Legal

\* the raw output trimmed, its quote characters removed, in lower case
Normalized(raw) == Lower(RemoveChar(RemoveChar(Strip(raw), "\""), "'"))

\* the worker's name occurs in the normalized output, case-insensitively
Occurs(member, raw) == Contains(Normalized(raw), Lower(member))

\* C15: for every raw output the Supervisor ran on, the parsed decision is
\* the first worker in roster order whose name occurs case-insensitively in
\* the normalized output, FINISH when no name occurs, and in every case a
\* roster member or FINISH.
C15_ParseFirstMatchOrFinish ==
    sup_log.ran =>
        /\ sup_log.parsed \in {sup_members[i] : i \in DOMAIN sup_members} \cup {S_FINISH}
        /\ (\A i \in DOMAIN sup_members : ~Occurs(sup_members[i], sup_log.raw))
              => sup_log.parsed = S_FINISH
        /\ \A i \in DOMAIN sup_members :
              ( /\ Occurs(sup_members[i], sup_log.raw)
                /\ \A j \in DOMAIN sup_members : j < i => ~Occurs(sup_members[j], sup_log.raw) )
              => sup_log.parsed = sup_members[i]

\* both names occur in the output; the roster puts Legal first
C15_Witness ==
    /\ sup_log.ran
    /\ sup_log.raw = S_both
    /\ sup_members = <<S_Legal, S_Finance>>
    /\ sup_log.parsed = S_Legal

MaxBranches == 3

\* an ordered mapping (a Python dict) is a sequence of [key, value] entries
HasKey(d, k) == \E i \in DOMAIN d : d[i].key = k
ValueAt(d, k) == d[CHOOSE i \in DOMAIN d : d[i].key = k].value

\* {**left, **right}: the keys of left keep their place and take right's
\* value when right has them; the new keys of right follow in right's order
merge_dict(left, right) ==
    [i \in DOMAIN left |->
        IF HasKey(right, left[i].key)
        THEN [key |-> left[i].key, value |-> ValueAt(right, left[i].key)]
        ELSE left[i]]
    \o SelectSeq(right, LAMBDA e : ~HasKey(left, e.key))

merge_list(left, right) == left \o right

\* the channels of AIProjectManagerState declared without a reducer
LastValueKeys == {"task_breakdown", "current_step", "context", "results"}

Task(i, agent_id, agent_name, status) ==
    [id |-> i, status |-> status, assigned_to |-> agent_id, agent_name |-> agent_name]

RECURSIVE PlanTasks(_, _)
\* lines 88-98: one pending task per agent id that has a configuration,
\* numbered by the id's position in the roster
PlanTasks(agent_ids, i) ==
    IF i > Len(agent_ids) THEN << >>
    ELSE LET config == get_agent_config_by_id(agent_ids[i], TRUE) IN
         (IF config = NoConfig THEN << >>
          ELSE << Task(i, agent_ids[i], config.name, "pending") >>)
         \o PlanTasks(agent_ids, i + 1)

\* lines 137-142
CompleteTasks(tasks, agent_id) ==
    [i \in DOMAIN tasks |->
        IF tasks[i].assigned_to = agent_id
        THEN Task(tasks[i].id, tasks[i].assigned_to, tasks[i].agent_name, "completed")
        ELSE tasks[i]]

\* line 165: the header of one section of the synthesis prompt
SectionLabel(aid) ==
    LET config == get_agent_config_by_id(aid, TRUE) IN
    IF config = NoConfig THEN aid ELSE config.name

\* lines 164-167: the sections follow agent_outputs.items()
SynthesisSections(agent_outputs) ==
    [i \in DOMAIN agent_outputs |-> SectionLabel(agent_outputs[i].key)]

\* the rosters a workflow is built for (a3 has no row in the agents table)
AgentIds == {S_a1, S_a2, S_a3}

\* spec.agent_ids: one to MaxBranches distinct agent ids, in any order (a
\* repeated id would name two nodes alike and the graph would not build)
TaskRosters ==
    { r \in UNION {[1..n -> AgentIds] : n \in 1..MaxBranches} :
        \A i, j \in DOMAIN r : r[i] = r[j] => i = j }

\* initial_state handed to run_dynamic_workflow
TgInit ==
    /\ tg_agent_ids \in TaskRosters
    /\ tg_node = "task_planner"
    /\ tg_messages = << HumanMsg(UserQuestion) >>
    /\ tg_task_breakdown = << >>
    /\ tg_current_step = "planning"
    /\ tg_agent_outputs = << >>
    /\ tg_writes = << >>
    /\ tg_error = "none"
    /\ tg_sections = << >>

\* task_planner_node, lines 55-104, and the fan-out edges, lines 199-200
TaskPlanner ==
    /\ UNCHANGED not_tg_vars
    /\ tg_node = "task_planner"
    /\ get_agent_config_by_id(tg_agent_ids[1], TRUE) # NoConfig
    /\ tg_task_breakdown' = PlanTasks(tg_agent_ids, 1)
    /\ tg_current_step' = "execution"
    /\ tg_messages' = merge_list(tg_messages, << AIMsg(Plain("Task Planning Complete:")) >>)
    /\ tg_node' = "agents"
    /\ UNCHANGED <<tg_agent_ids, tg_agent_outputs, tg_writes, tg_error, tg_sections>>

\* task_planner_node raises: the first agent id has no configuration
\* (lines 60-62) or the planning call fails (lines 105-107)
TaskPlannerFails ==
    /\ UNCHANGED not_tg_vars
    /\ tg_node = "task_planner"
    /\ \E e \in {"ValueError", "ModelError"} :
          /\ e = "ValueError" <=> get_agent_config_by_id(tg_agent_ids[1], TRUE) = NoConfig
          /\ tg_error' = e
    /\ tg_node' = "failed"
    /\ UNCHANGED <<tg_agent_ids, tg_messages, tg_task_breakdown, tg_current_step,
                   tg_agent_outputs, tg_writes, tg_sections>>

Range(f) == {f[i] : i \in DOMAIN f}

\* the agent ids whose branch has returned
Finished == {tg_writes[i].agent : i \in DOMAIN tg_writes}

\* agent_node, lines 112-148: the branch of agent id aid returns its update;
\* its lookup of the configuration finds no row, or fails, or finds the row
agent_node(aid) ==
    /\ UNCHANGED not_tg_vars
    /\ tg_node = "agents"
    /\ aid \notin Finished
    /\ \E db_ok \in BOOLEAN :
       LET config == get_agent_config_by_id(aid, db_ok)
           update ==
             IF config = NoConfig
             THEN \* line 116, `return state`: every key of the state it was given
                  [agent |-> aid,
                   keys |-> {"messages", "agent_outputs"} \cup LastValueKeys,
                   messages |-> tg_messages,
                   agent_outputs |-> tg_agent_outputs,
                   task_breakdown |-> tg_task_breakdown]
             ELSE \* lines 145-148
                  [agent |-> aid,
                   keys |-> {"agent_outputs", "task_breakdown"},
                   messages |-> << >>,
                   agent_outputs |-> << [key |-> aid, value |-> Answer] >>,
                   task_breakdown |-> CompleteTasks(tg_task_breakdown, aid)]
       IN  tg_writes' = Append(tg_writes, update)
    /\ UNCHANGED <<tg_agent_ids, tg_node, tg_messages, tg_task_breakdown,
                   tg_current_step, tg_agent_outputs, tg_error, tg_sections>>

\* agent_node, lines 149-151: the branch's model call raises
agent_node_raises(aid) ==
    /\ UNCHANGED not_tg_vars
    /\ tg_node = "agents"
    /\ aid \notin Finished
    /\ get_agent_config_by_id(aid, TRUE) # NoConfig
    /\ tg_node' = "failed"
    /\ tg_error' = "ModelError"
    /\ UNCHANGED <<tg_agent_ids, tg_messages, tg_task_breakdown, tg_current_step,
                   tg_agent_outputs, tg_writes, tg_sections>>

\* one of the branches still running finishes
AgentBranch == \E aid \in AgentIds : aid \in Range(tg_agent_ids) /\ agent_node(aid)

\* one of the branches still running fails
AgentBranchFails == \E aid \in AgentIds : aid \in Range(tg_agent_ids) /\ agent_node_raises(aid)

\* the updates of the superstep in the order the nodes were added to the
\* graph (lines 189-191), which is the order the graph applies them in
RECURSIVE WritesInNodeOrder(_)
WritesInNodeOrder(i) ==
    IF i > Len(tg_agent_ids) THEN << >>
    ELSE SelectSeq(tg_writes, LAMBDA w : w.agent = tg_agent_ids[i])
         \o WritesInNodeOrder(i + 1)

RECURSIVE FoldOutputs(_, _)
FoldOutputs(acc, ws) ==
    IF ws = << >> THEN acc
    ELSE FoldOutputs(
           IF "agent_outputs" \in Head(ws).keys
           THEN merge_dict(acc, Head(ws).agent_outputs) ELSE acc,
           Tail(ws))

RECURSIVE FoldMessages(_, _)
FoldMessages(acc, ws) ==
    IF ws = << >> THEN acc
    ELSE FoldMessages(
           IF "messages" \in Head(ws).keys
           THEN merge_list(acc, Head(ws).messages) ELSE acc,
           Tail(ws))

\* how many branches of the superstep wrote the state key k
Writers(k) == Cardinality({i \in DOMAIN tg_writes : k \in tg_writes[i].keys})

AllBranchesFinished ==
    /\ tg_node = "agents"
    /\ \A i \in DOMAIN tg_agent_ids : tg_agent_ids[i] \in Finished

\* every branch has finished and each key without a reducer has at most one
\* writer: the updates are applied and synthesis is due (lines 203-204)
FanIn ==
    /\ UNCHANGED not_tg_vars
    /\ AllBranchesFinished
    /\ \A k \in LastValueKeys : Writers(k) <= 1
    /\ tg_agent_outputs' = FoldOutputs(tg_agent_outputs, WritesInNodeOrder(1))
    /\ tg_messages' = FoldMessages(tg_messages, WritesInNodeOrder(1))
    /\ tg_task_breakdown' =
          IF Writers("task_breakdown") = 1
          THEN tg_writes[CHOOSE i \in DOMAIN tg_writes :
                            "task_breakdown" \in tg_writes[i].keys].task_breakdown
          ELSE tg_task_breakdown
    /\ tg_node' = "synthesis"
    /\ UNCHANGED <<tg_agent_ids, tg_current_step, tg_writes, tg_error, tg_sections>>

\* every branch has finished and a key without a reducer (line 32:
\* task_breakdown) received more than one value in the superstep: the graph
\* raises InvalidUpdateError and no update is applied
FanInConflict ==
    /\ UNCHANGED not_tg_vars
    /\ AllBranchesFinished
    /\ \E k \in LastValueKeys : Writers(k) > 1
    /\ tg_node' = "failed"
    /\ tg_error' = "InvalidUpdateError"
    /\ UNCHANGED <<tg_agent_ids, tg_messages, tg_task_breakdown, tg_current_step,
                   tg_agent_outputs, tg_writes, tg_sections>>

\* synthesis_node, lines 156-183
Synthesis ==
    /\ UNCHANGED not_tg_vars
    /\ tg_node = "synthesis"
    /\ tg_sections' = SynthesisSections(tg_agent_outputs)
    /\ tg_messages' = merge_list(tg_messages, << AIMsg(Answer) >>)
    /\ tg_current_step' = "completed"
    /\ tg_node' = "END"
    /\ UNCHANGED <<tg_agent_ids, tg_task_breakdown, tg_agent_outputs, tg_writes, tg_error>>

\* synthesis_node: the prompt is built (lines 164-176) and the call raises
SynthesisFails ==
    /\ UNCHANGED not_tg_vars
    /\ tg_node = "synthesis"
    /\ tg_sections' = SynthesisSections(tg_agent_outputs)
    /\ tg_node' = "failed"
    /\ tg_error' = "ModelError"
    /\ UNCHANGED <<tg_agent_ids, tg_messages, tg_task_breakdown, tg_current_step,
                   tg_agent_outputs, tg_writes>>

TgNext ==
    \/ TaskPlanner
    \/ TaskPlannerFails
    \/ AgentBranch
    \/ AgentBranchFails
    \/ FanIn
    \/ FanInConflict
    \/ Synthesis
    \/ SynthesisFails

\* a run of the task graph, nothing else under way
InitTaskGraph == WfIdle /\ SupIdle /\ TgInit /\ AgIdle /\ RqIdle /\ MbIdle

SpecTaskGraph == InitTaskGraph /\ [][TgNext]_vars

RECURSIVE RosterSections(_)
\* the labels, in roster order, of the agents whose branch produced an output
RosterSections(i) ==
    IF i > Len(tg_agent_ids) THEN << >>
    ELSE (IF \E j \in DOMAIN tg_writes :
                /\ tg_writes[j].agent = tg_agent_ids[i]
                /\ HasKey(tg_writes[j].agent_outputs, tg_agent_ids[i])
          THEN << SectionLabel(tg_agent_ids[i]) >> ELSE << >>)
         \o RosterSections(i + 1)

\* C5: once every phase-2 branch has finished, in whatever order, and the
\* fan-in has been taken, the synthesis input is built and its labeled
\* sections are in roster order.
C5_SectionsInRosterOrder ==
    ( /\ tg_node \in {"END", "failed"}
      /\ tg_agent_ids # << >>
      /\ \A i \in DOMAIN tg_agent_ids : tg_agent_ids[i] \in Finished )
    => tg_sections = RosterSections(1)

\* C22: after the planning phase the task list holds exactly one task per
\* agent of the roster, in roster order, with assigned_to set to that
\* agent's id; and in every state every task's assigned_to is an agent of
\* the roster.
C22_OneTaskPerRosterAgent ==
    /\ tg_node \in {"agents", "synthesis", "END"} =>
          /\ Len(tg_task_breakdown) = Len(tg_agent_ids)
          /\ \A i \in DOMAIN tg_task_breakdown :
                tg_task_breakdown[i].assigned_to = tg_agent_ids[i]
    /\ \A i \in DOMAIN tg_task_breakdown :
          tg_task_breakdown[i].assigned_to \in Range(tg_agent_ids)

\* the agents whose phase-2 branch has completed with an output
Completed ==
    {tg_writes[i].agent : i \in {j \in DOMAIN tg_writes :
                                   HasKey(tg_writes[j].agent_outputs, tg_writes[j].agent)}}

\* the superstep of phase 2 is over: its updates were applied or refused
PhaseTwoOver ==
    \/ tg_node \in {"synthesis", "END"}
    \/ tg_node = "failed" /\ tg_error = "InvalidUpdateError"
    \/ tg_node = "failed" /\ tg_sections # << >>

\* C23: once the phase-2 branches have completed, every task assigned to an
\* agent whose branch completed is completed in the shared state, up to and
\* through synthesis, and no task of the plan has been removed.
C23_CompletedTasksStay ==
    PhaseTwoOver =>
       /\ Len(tg_task_breakdown) = Len(PlanTasks(tg_agent_ids, 1))
       /\ \A i \in DOMAIN tg_task_breakdown :
             tg_task_breakdown[i].assigned_to \in Completed
                => tg_task_breakdown[i].status = "completed"

\* C24: after phase 2 the outputs mapping holds, for every agent whose branch
\* produced an output, exactly one entry keyed by that agent's id with that
\* branch's own output, whatever the order the branches finished in.
C24_EachBranchOwnsItsKey ==
    PhaseTwoOver =>
       \A w \in Range(tg_writes) :
          HasKey(w.agent_outputs, w.agent) =>
             /\ Cardinality({i \in DOMAIN tg_agent_outputs :
                                tg_agent_outputs[i].key = w.agent}) = 1
             /\ ValueAt(tg_agent_outputs, w.agent) = ValueAt(w.agent_outputs, w.agent)

\* C25: no branch starts before planning has finished; synthesis runs only
\* after every branch of phase 2 has finished, with the output of every
\* branch in its input; and a run that no model call or lookup failed in
\* ends with synthesis having run.
C25_SynthesisOnceAfterAllBranches ==
    /\ tg_writes # << >> => tg_current_step # "planning"
    /\ (tg_sections # << >> \/ tg_current_step = "completed") =>
          /\ \A i \in DOMAIN tg_agent_ids : tg_agent_ids[i] \in Finished
          /\ \A a \in Completed : HasKey(tg_agent_outputs, a)
    /\ (tg_node \in {"END", "failed"} /\ tg_error \notin {"ModelError", "ValueError"}) =>
          tg_current_step = "completed"

\* C29: a phase-2 branch whose agent configuration cannot be found leaves
\* the shared state unchanged: when the updates of a superstep whose
\* branches all found no configuration are applied, the messages, the task
\* list and the outputs mapping are what they were before.
C29_SkippedBranchChangesNothing ==
    [][ ( /\ tg_node = "agents"
          /\ tg_node' = "synthesis"
          /\ \A w \in Range(tg_writes) : ~HasKey(w.agent_outputs, w.agent) )
        => UNCHANGED <<tg_messages, tg_task_breakdown, tg_agent_outputs>>
      ]_vars

(***************************************************************************)
(* The single-agent graph: create_agent_graph (agent_graph.py). An agent   *)
(* node and a tools node over AgentState, whose messages key is declared   *)
(* without a reducer: what a node returns for it replaces the value.       *)
(***************************************************************************)
\* KnowledgeBaseTool._run (tools/rag.py)
retrieve_knowledge(outcome, e) ==
    CASE outcome = "fault" -> Text("Error retrieving information: ", << >>, e)
      [] outcome = "none"  -> Plain("No relevant documents found in the knowledge base.")
      [] OTHER             -> Plain("--- Source: s (Confidence: 0.90) ---\n")

\* line 24: tools = [KnowledgeBaseTool()]
graph_tools == {"retrieve_knowledge"}

\* the update of a state key declared without a reducer (line 15)
WriteMessages(old, update) == update

tools_condition_ends_on_call(messages) ==
    IF Last(messages).tool # NoTool THEN "END" ELSE "tools"

\* tools_condition (lines 61-64): to the tools node when the last message
\* carries a tool call, else END
tools_condition(messages) ==
    IF Last(messages).tool # NoTool THEN "tools" ELSE "END"

S_q1 == <<"q", "1">>
S_q2 == <<"q", "2">>

\* what the model bound to the graph's tools may reply
GraphReplies ==
    { AIMsg(Answer), AIMsg(Plain("I do not know.")),
      AICall("retrieve_knowledge", S_q1), AICall("retrieve_knowledge", S_q2),
      AICall("unknown_tool", << >>) }

\* the messages the graph is invoked with
GraphInputs ==
    { << HumanMsg(UserQuestion) >>,
      << Msg("system", Plain("You are Legal."), NoName, NoTool, << >>, NoName),
         HumanMsg(UserQuestion) >>,
      << HumanMsg(UserQuestion), AIMsg(Answer), HumanMsg(UserQuestion) >> }

AgInit ==
    /\ ag_messages \in GraphInputs
    /\ ag_node = "agent"
    /\ ag_step = 0
    /\ ag_log = ag_messages

\* agent_node, lines 37-50, and the conditional edge, lines 61-64
AgentNode ==
    /\ UNCHANGED not_ag_vars
    /\ ag_node = "agent"
    /\ ag_step < RecursionLimit
    /\ \E response \in GraphReplies :
          /\ ag_messages' = WriteMessages(ag_messages, << response >>)
          /\ ag_log' = Append(ag_log, response)
          /\ ag_node' = tools_condition(ag_messages')
    /\ ag_step' = ag_step + 1

\* agent_node: llm_with_tools.ainvoke raises
AgentNodeFails ==
    /\ UNCHANGED not_ag_vars
    /\ ag_node = "agent"
    /\ ag_step < RecursionLimit
    /\ ag_node' = "failed"
    /\ ag_step' = ag_step + 1
    /\ UNCHANGED <<ag_messages, ag_log>>

\* ToolNode(tools), line 56, and the edge back to the agent, line 67
ToolsNode ==
    /\ UNCHANGED not_ag_vars
    /\ ag_node = "tools"
    /\ ag_step < RecursionLimit
    /\ LET tool == Last(ag_messages).tool IN
       \E outcome \in {"found", "none", "fault"} : \E e \in ExceptionTexts :
          LET obs == IF ToolNodeHolds(tool, graph_tools)
                     THEN retrieve_knowledge(outcome, e)
                     ELSE InvalidToolText(tool)
          IN  /\ ag_messages' = WriteMessages(ag_messages, << ToolMsg(obs, tool, "call_1") >>)
              /\ ag_log' = Append(ag_log, ToolMsg(obs, tool, "call_1"))
    /\ ag_node' = "agent"
    /\ ag_step' = ag_step + 1

\* a node is due after recursion_limit supersteps: GraphRecursionError
GraphOutOfSteps ==
    /\ UNCHANGED not_ag_vars
    /\ ag_node \in {"agent", "tools"}
    /\ ag_step >= RecursionLimit
    /\ ag_node' = "failed"
    /\ UNCHANGED <<ag_messages, ag_step, ag_log>>

AgNext ==
    \/ AgentNode
    \/ AgentNodeFails
    \/ ToolsNode
    \/ GraphOutOfSteps

\* a run of the single-agent graph, nothing else under way
InitAgentGraph == WfIdle /\ SupIdle /\ TgIdle /\ AgInit /\ RqIdle /\ MbIdle

SpecAgentGraph == InitAgentGraph /\ [][AgNext]_vars

IsPrefix(a, b) == Len(a) <= Len(b) /\ SubSeq(b, 1, Len(a)) = a

\* C18: the message history is append-only: in every step of the graph the
\* history before the step is a prefix of the history after it.
C18_HistoryAppendOnly == [][IsPrefix(ag_messages, ag_messages')]_vars

\* C21: in the single-agent graph a model message without a tool call ends
\* the execution with that message as the final answer, a model message
\* with a tool call leads to the tools node, and the tools node hands over
\* to the agent node (a further model call) and never to END.
C21_LoopShape ==
    [][ /\ (ag_node = "agent" /\ ag_log' # ag_log) =>
             /\ Last(ag_log').type = "ai"
             /\ Last(ag_log').tool = NoTool => /\ ag_node' = "END"
                                               /\ Last(ag_messages') = Last(ag_log')
             /\ Last(ag_log').tool # NoTool => ag_node' = "tools"
        /\ (ag_node = "tools" /\ ag_log' # ag_log) =>
             /\ Last(ag_log').type = "tool"
             /\ ag_node' = "agent"
        /\ ag_node' = "END" => /\ ag_node \in {"agent", "END"}
                               /\ Last(ag_messages').type = "ai"
                               /\ Last(ag_messages').tool = NoTool
        /\ ag_node = "END" => UNCHANGED ag_vars
      ]_vars

\* a run that called the tool, observed its result and then answered
C21_Witness ==
    /\ ag_node = "END"
    /\ Len(ag_log) >= 3
    /\ ag_log[Len(ag_log) - 1].type = "tool"
    /\ ag_log[Len(ag_log) - 1].name = "retrieve_knowledge"
    /\ ag_log[Len(ag_log) - 2].tool = "retrieve_knowledge"
    /\ Last(ag_log) = AIMsg(Answer)

(***************************************************************************)
(* Top-level requests served concurrently. Each runs its own loop; the     *)
(* handlers search_text_documents, query_data and get_data_schema start    *)
(* with get_rag_manager() (agent_tools.py:50-57), which reads and lazily   *)
(* writes the module global rag_manager. Synchronous tools of concurrent   *)
(* requests run interleaved, one line of get_rag_manager at a time.        *)
(***************************************************************************)
MaxRequests == 2
MaxToolCalls == 2

RequestIds == 1..MaxRequests

Access(r, op) == [req |-> r, op |-> op]

RqInit ==
    /\ rag_manager = 0
    /\ rq_pc = [r \in RequestIds |-> "thinking"]
    /\ rq_mgr = [r \in RequestIds |-> 0]
    /\ rq_calls = [r \in RequestIds |-> 0]
    /\ rq_access = {}

\* the model of request r asks for one of the handlers that use the manager
RqCallTool ==
    /\ UNCHANGED not_rq_vars
    /\ \E r \in RequestIds :
        /\ rq_pc[r] = "thinking"
        /\ rq_calls[r] < MaxToolCalls
        /\ rq_pc' = [rq_pc EXCEPT ![r] = "test"]
        /\ rq_calls' = [rq_calls EXCEPT ![r] = @ + 1]
        /\ UNCHANGED <<rag_manager, rq_mgr, rq_access>>

\* get_rag_manager, line 55: `if rag_manager is None`
RqTest ==
    /\ UNCHANGED not_rq_vars
    /\ \E r \in RequestIds :
        /\ rq_pc[r] = "test"
        /\ rq_pc' = [rq_pc EXCEPT ![r] = IF rag_manager = 0 THEN "construct" ELSE "return"]
        /\ rq_access' = rq_access \cup {Access(r, "read")}
        /\ UNCHANGED <<rag_manager, rq_mgr, rq_calls>>

\* get_rag_manager, line 56: `rag_manager = RAGDocumentManager()`
RqConstruct ==
    /\ UNCHANGED not_rq_vars
    /\ \E r \in RequestIds :
        /\ rq_pc[r] = "construct"
        /\ rag_manager' = r
        /\ rq_pc' = [rq_pc EXCEPT ![r] = "return"]
        /\ rq_access' = rq_access \cup {Access(r, "write")}
        /\ UNCHANGED <<rq_mgr, rq_calls>>

\* get_rag_manager, line 57: `return rag_manager`
RqReturn ==
    /\ UNCHANGED not_rq_vars
    /\ \E r \in RequestIds :
        /\ rq_pc[r] = "return"
        /\ rq_mgr' = [rq_mgr EXCEPT ![r] = rag_manager]
        /\ rq_pc' = [rq_pc EXCEPT ![r] = "tool"]
        /\ rq_access' = rq_access \cup {Access(r, "read")}
        /\ UNCHANGED <<rag_manager, rq_calls>>

\* the handler runs with the manager it was handed and returns its text
RqRunTool ==
    /\ UNCHANGED not_rq_vars
    /\ \E r \in RequestIds :
        /\ rq_pc[r] = "tool"
        /\ rq_pc' = [rq_pc EXCEPT ![r] = "thinking"]
        /\ UNCHANGED <<rag_manager, rq_mgr, rq_calls, rq_access>>

\* the model of request r answers and the request is done
RqAnswer ==
    /\ UNCHANGED not_rq_vars
    /\ \E r \in RequestIds :
        /\ rq_pc[r] = "thinking"
        /\ rq_pc' = [rq_pc EXCEPT ![r] = "done"]
        /\ UNCHANGED <<rag_manager, rq_mgr, rq_calls, rq_access>>

RqNext ==
    \/ RqCallTool
    \/ RqTest
    \/ RqConstruct
    \/ RqReturn
    \/ RqRunTool
    \/ RqAnswer

\* concurrent requests, nothing else under way
InitRequests == WfIdle /\ SupIdle /\ TgIdle /\ AgIdle /\ RqInit /\ MbIdle

SpecRequests == InitRequests /\ [][RqNext]_vars

\* C20: no variable written while serving one request is read or written
\* while serving another: the module global has no write by one request
\* together with an access by a different request.
C20_NoSharedMutableState ==
    \A a, b \in rq_access : a.op = "write" => b.req = a.req

(***************************************************************************)
(* The agent mailboxes: send_message_to_agent and get_messages_for_agent    *)
(* (agent_service_claude.py, served by main_claude.py) and the endpoints    *)
(* send_a2a_message and get_a2a_messages of main.py, each over its own      *)
(* module global a2a_message_buffer. Every caller is an `async def`         *)
(* endpoint without an await around the call: a call runs to its end        *)
(* before another starts.                                                   *)
(***************************************************************************)
MaxMessages == 3
MaxRetrievals == 3

MailboxAgents == {S_a1, S_a2}

\* dict.get(k, []) and d[k] = v
BufferGet(buffer, k) == IF k \in DOMAIN buffer THEN buffer[k] ELSE << >>
BufferSet(buffer, k, v) ==
    [x \in DOMAIN buffer \cup {k} |-> IF x = k THEN v ELSE buffer[x]]

\* the envelope; message_id is the uuid of agent_service_claude.py:147 and
\* stands for the timestamp of main.py:216
Envelope(from_agent_id, message, message_id) ==
    [from_agent_id |-> from_agent_id, content |-> message, message_id |-> message_id]

\* agent_service_claude.py:137-151, main.py:210-218: the buffer afterwards
send_message_to_agent(buffer, from_agent_id, to_agent_id, message, message_id) ==
    LET b == IF to_agent_id \notin DOMAIN buffer
             THEN BufferSet(buffer, to_agent_id, << >>) ELSE buffer
    IN  BufferSet(b, to_agent_id,
                  Append(b[to_agent_id], Envelope(from_agent_id, message, message_id)))

\* a retrieval that leaves the mailbox as it is
get_messages_keeps_mailbox(buffer, agent_id, app) ==
    [messages |-> BufferGet(buffer, agent_id), buffer |-> buffer]

\* agent_service_claude.py:167-174 clears the mailbox when it held messages;
\* main.py:227-230 sets it to [] in every case. What is returned, and the
\* buffer afterwards
get_messages_for_agent(buffer, agent_id, app) ==
    LET messages == BufferGet(buffer, agent_id) IN
    [messages |-> messages,
     buffer |-> IF app = "main" \/ messages # << >>
                THEN BufferSet(buffer, agent_id, << >>) ELSE buffer]

MbInit ==
    /\ mb_app \in {"main", "main_claude"}
    /\ a2a_message_buffer = [k \in {} |-> << >>]
    /\ mb_sent = << >>
    /\ mb_retrieved = << >>

\* POST /api/a2a/send
MbSend ==
    /\ UNCHANGED not_mb_vars
    /\ Len(mb_sent) < MaxMessages
    /\ \E from_agent_id, to_agent_id \in MailboxAgents :
          LET message_id == Len(mb_sent) + 1 IN
          /\ a2a_message_buffer' =
                send_message_to_agent(a2a_message_buffer, from_agent_id,
                                      to_agent_id, UserQuestion, message_id)
          /\ mb_sent' = Append(mb_sent,
                               [to |-> to_agent_id,
                                envelope |-> Envelope(from_agent_id, UserQuestion, message_id)])
    /\ UNCHANGED <<mb_app, mb_retrieved>>

\* GET /api/a2a/messages/{agent_id}
MbGet ==
    /\ UNCHANGED not_mb_vars
    /\ Len(mb_retrieved) < MaxRetrievals
    /\ \E agent_id \in MailboxAgents :
          LET got == get_messages_for_agent(a2a_message_buffer, agent_id, mb_app) IN
          /\ a2a_message_buffer' = got.buffer
          /\ mb_retrieved' = Append(mb_retrieved,
                                    [agent |-> agent_id, messages |-> got.messages])
    /\ UNCHANGED <<mb_app, mb_sent>>

MbNext ==
    \/ MbSend
    \/ MbGet

\* calls of the mailbox endpoints, nothing else under way
InitMailbox == WfIdle /\ SupIdle /\ TgIdle /\ AgIdle /\ RqIdle /\ MbInit

SpecMailbox == InitMailbox /\ [][MbNext]_vars

RECURSIVE RetrievedBy(_, _)
\* what the first n retrievals returned for agent a, one after the other
RetrievedBy(a, n) ==
    IF n = 0 THEN << >>
    ELSE RetrievedBy(a, n - 1)
         \o (IF mb_retrieved[n].agent = a THEN mb_retrieved[n].messages ELSE << >>)

\* the envelopes sent to agent a, in send order
SentTo(a) ==
    LET sends == SelectSeq(mb_sent, LAMBDA m : m.to = a) IN
    [i \in DOMAIN sends |-> sends[i].envelope]

\* C30: under any interleaving of sends and retrievals, for every recipient
\* the messages its retrievals returned, one retrieval after the other,
\* followed by the messages still pending in its mailbox, are the messages
\* sent to it, each once and in send order; and a retrieval leaves the
\* recipient's mailbox empty.
C30_MailboxDrainOnRead ==
    /\ [](\A a \in MailboxAgents :
            RetrievedBy(a, Len(mb_retrieved)) \o BufferGet(a2a_message_buffer, a) = SentTo(a))
    /\ [][ Len(mb_retrieved') > Len(mb_retrieved) =>
             BufferGet(a2a_message_buffer', Last(mb_retrieved').agent) = << >> ]_vars

\* two messages for a1 retrieved in one call, after an interleaved message
\* for a2 that is still pending
C30_Witness ==
    /\ \E n \in DOMAIN mb_retrieved :
          /\ mb_retrieved[n].agent = S_a1
          /\ Len(mb_retrieved[n].messages) = 2
    /\ Len(BufferGet(a2a_message_buffer, S_a2)) = 1
    /\ mb_sent[2].to = S_a2

Init == WfInit /\ SupIdle /\ TgIdle /\ AgIdle /\ RqIdle /\ MbIdle
Next == WfNext
Spec == Init /\ [][Next]_vars

====
